---- MODULE Spec2Model ----
(***************************************************************************)
(* Model of the field-extraction core of app_pdf.py (USCISFormExtractor):  *)
(* the per-line extraction pass extract_parts_and_fields, the field        *)
(* builder (should_create_subfields, create_subfields, detect_field_type)  *)
(* and the form-type detector detect_form_type.                            *)
(*                                                                         *)
(* Python strings are TLA+ strings; characters are strings of length one,  *)
(* read with SubSeq; texts are over the characters a TLA+ string can       *)
(* spell, U+0001 to U+00FF, and the character classes below are those of   *)
(* Python on these characters.  The regular expressions of the source are  *)
(* modelled by matchers written for exactly those expressions.             *)
(***************************************************************************)
EXTENDS Integers, Sequences, FiniteSets, TLC

VARIABLES
    field_hierarchy,   \* self.field_hierarchy: parent item number -> [label, subfields]
    debug_info,        \* self.debug_info: the trace, a sequence of strings
    pc,                \* "idle", or "loop" while extract_parts_and_fields runs
    text,              \* the argument of the current (or latest) pass
    lines,             \* local: text.split('\n')
    i,                 \* local: position of the next line of the for loop (from 1)
    extracted_fields,  \* local: the sequence accumulated by the current (or latest) pass
    current_part,      \* local: None or "Part <n>"
    item_counter,      \* local: counts the numbered items, read by nothing
    ret,               \* what the latest completed pass returned to its caller
    runs,              \* number of passes completed so far
    last_text,         \* the argument of the pass before the current (or latest) one
    last_fields,       \* the sequence that earlier pass accumulated
    used,              \* number of text lines handed to passes so far
    call_hierarchy,    \* self.field_hierarchy as it was when the pass was entered
    call_debug,        \* self.debug_info as it was when the pass was entered
    form_text,         \* the argument of detect_form_type
    form_type,         \* what detect_form_type returned
    b_num,             \* field builder: the item number given
    b_label,           \* field builder: the label given
    b_out,             \* field builder: what the called builder function returned
    DOCLING_AVAILABLE, \* module flag: docling.document_converter was imported
    DOCLING_PIPELINE,  \* module flag: PdfPipelineOptions was imported
    PYMUPDF_AVAILABLE, \* module flag: fitz was imported
    PYPDF2_AVAILABLE,  \* module flag: PyPDF2 was imported
    pdf_file,          \* the upload given to extract_pdf_content: can it be read
    lib,               \* which calls into the three libraries succeed on this upload
    document,          \* result.document of the Docling converter that worked
    pdf_pc,            \* position within extract_pdf_content
    attempts,          \* the extraction methods entered so far, in order, with outcome
    content            \* what extract_pdf_content returned

pass_vars == <<field_hierarchy, debug_info, pc, text, lines, i, extracted_fields,
               current_part, item_counter, ret, runs, last_text, last_fields, used,
               call_hierarchy, call_debug>>

form_vars == <<form_text, form_type>>

builder_vars == <<b_num, b_label, b_out>>

flag_vars == <<DOCLING_AVAILABLE, DOCLING_PIPELINE, PYMUPDF_AVAILABLE, PYPDF2_AVAILABLE>>

pdf_vars == <<flag_vars, pdf_file, lib, document, pdf_pc, attempts, content>>

vars == <<pass_vars, form_vars, builder_vars, pdf_vars>>

(***************************************************************************)
(* Bounds of the model.                                                    *)
(***************************************************************************)
\* Total number of text lines one run of the model feeds to extractors.
MaxLines == 3

\* Largest number of fragments a text given to detect_form_type is made of.
MaxFrags == 2

\* Largest number of phrases a label given to the field builder is made of.
MaxWords == 2

\* Largest number of tables of a document Docling converts.
MaxTables == 2

\* Largest number of pages of an upload.
MaxPages == 2

(***************************************************************************)
(* Python str primitives.                                                  *)
(***************************************************************************)
Char(s, k) == SubSeq(s, k, k)

\* Characters str.strip() removes and the regex class \s matches, of the
\* characters a TLA+ string can spell (U+0001 to U+00FF): blank, \t, \n, \r,
\* \f, and, written as themselves, U+000B, U+001C, U+001D, U+001E, U+001F,
\* U+0085 and U+00A0.
Whitespace ==
    {" ", "\t", "\n", "\r", "\f", "", "", "", "", "", "", " "}

IsSpace(c) == c \in Whitespace

\* The regex class \d: up to U+00FF it matches the ten ASCII digits only.
IsDigit(c) == c \in {"0", "1", "2", "3", "4", "5", "6", "7", "8", "9"}

\* The characters up to U+00FF that str.lower() changes: A to Z, U+00C0 to
\* U+00D6 and U+00D8 to U+00DE.
UpperAlpha == "ABCDEFGHIJKLMNOPQRSTUVWXYZÀÁÂÃÄÅÆÇÈÉÊËÌÍÎÏÐÑÒÓÔÕÖØÙÚÛÜÝÞ"

\* What str.lower() makes of them, in the same order.
LowerAlpha == "abcdefghijklmnopqrstuvwxyzàáâãäåæçèéêëìíîïðñòóôõöøùúûüýþ"

\* The lower-case letter of each upper-case letter.
LowerOf ==
    [c \in {Char(UpperAlpha, k) : k \in 1..Len(UpperAlpha)} |->
        Char(LowerAlpha, CHOOSE k \in 1..Len(UpperAlpha) : Char(UpperAlpha, k) = c)]

LowerChar(c) == IF c \in DOMAIN LowerOf THEN LowerOf[c] ELSE c

RECURSIVE Lower(_)
\* str.lower()
Lower(s) == IF s = "" THEN "" ELSE LowerChar(Char(s, 1)) \o Lower(SubSeq(s, 2, Len(s)))

\* The Python expression `sub in s`.
Contains(s, sub) ==
    \E k \in 1..(Len(s) - Len(sub) + 1) : SubSeq(s, k, k + Len(sub) - 1) = sub

\* any(p in s for p in patterns)
ContainsAny(s, patterns) == \E p \in patterns : Contains(s, p)

RECURSIVE LStrip(_)
LStrip(s) == IF s # "" /\ IsSpace(Char(s, 1)) THEN LStrip(SubSeq(s, 2, Len(s))) ELSE s

RECURSIVE RStrip(_)
RStrip(s) ==
    IF s # "" /\ IsSpace(Char(s, Len(s))) THEN RStrip(SubSeq(s, 1, Len(s) - 1)) ELSE s

\* str.strip()
Strip(s) == RStrip(LStrip(s))

RECURSIVE Split(_)
\* text.split('\n'): the pieces between newlines, empty pieces kept.
Split(s) ==
    IF \E k \in 1..Len(s) : Char(s, k) = "\n"
    THEN LET k == CHOOSE j \in 1..Len(s) :
                     Char(s, j) = "\n" /\ \A m \in 1..(j - 1) : Char(s, m) # "\n"
         IN  <<SubSeq(s, 1, k - 1)>> \o Split(SubSeq(s, k + 1, Len(s)))
    ELSE <<s>>

\* chr(97 + i)
Chr97(n) == Char(LowerAlpha, n + 1)

\* Python None where a str is optional; item numbers are digit strings, so
\* the value never collides with one.
None == "None"

(***************************************************************************)
(* Regular expressions of the pass.                                        *)
(***************************************************************************)
\* Length of the longest run of digits of s starting at position p (\d+, greedy).
RECURSIVE DigitRun(_, _)
DigitRun(s, p) == IF p <= Len(s) /\ IsDigit(Char(s, p)) THEN 1 + DigitRun(s, p + 1) ELSE 0

\* Length of the longest run of whitespace of s starting at position p (\s+, \s*).
RECURSIVE SpaceRun(_, _)
SpaceRun(s, p) == IF p <= Len(s) /\ IsSpace(Char(s, p)) THEN 1 + SpaceRun(s, p + 1) ELSE 0

\* Length of the longest run of characters other than newline of s starting
\* at position p (.+, greedy).
RECURSIVE DotRun(_, _)
DotRun(s, p) == IF p <= Len(s) /\ Char(s, p) # "\n" THEN 1 + DotRun(s, p + 1) ELSE 0

RECURSIVE RestStart(_, _)
\* The last position up to q of r that holds no newline, 0 if there is none.
RestStart(r, q) == IF q = 0 \/ Char(r, q) # "\n" THEN q ELSE RestStart(r, q - 1)

\* Where (.+) begins when `\s*(.+)` is matched against r: after the
\* whitespace \s* has eaten, or after as little less of it as lets (.+)
\* begin on a character that is not a newline; 0 if there is no match.
RestFrom(r) ==
    LET k == SpaceRun(r, 1)
    IN  RestStart(r, IF k < Len(r) THEN k + 1 ELSE Len(r))

\* What `\s*(.+)` captures when matched against r: (.+) runs to the end of
\* the line.
RestGroup(r) ==
    LET q == RestFrom(r)
    IN  SubSeq(r, q, q + DotRun(r, q) - 1)

\* `(\d+)\.\s*(.+)` matched at position p of line: digits, a dot, a rest
\* `\s*(.+)` matches.
NumberedAt(line, p) ==
    LET d == DigitRun(line, p)
    IN  /\ d > 0
        /\ p + d < Len(line)
        /\ Char(line, p + d) = "."
        /\ RestFrom(SubSeq(line, p + d + 1, Len(line))) > 0

NumberedGroups(line, p) ==
    LET d == DigitRun(line, p)
    IN  [g1 |-> SubSeq(line, p, p + d - 1),
         g2 |-> RestGroup(SubSeq(line, p + d + 1, Len(line)))]

\* `Part\s+(\d+)\.\s*(.+)` with re.IGNORECASE matched at position p of line.
PartAt(line, p) ==
    /\ p + 3 <= Len(line)
    /\ LowerChar(Char(line, p)) = "p"
    /\ Lower(SubSeq(line, p, p + 3)) = "part"
    /\ SpaceRun(line, p + 4) > 0
    /\ NumberedAt(line, p + 4 + SpaceRun(line, p + 4))

\* re.search(r'Part\s+(\d+)\.\s*(.+)', line, re.IGNORECASE) is not None
part_match(line) == \E p \in 1..Len(line) : PartAt(line, p)

\* The groups of the leftmost match.
part_groups(line) ==
    LET p == CHOOSE q \in 1..Len(line) :
                 PartAt(line, q) /\ \A m \in 1..(q - 1) : ~PartAt(line, m)
    IN  NumberedGroups(line, p + 4 + SpaceRun(line, p + 4))

\* re.search(r'^(\d+)\.\s*(.+)', line) is not None
item_match(line) == NumberedAt(line, 1)

item_groups(line) == NumberedGroups(line, 1)

(***************************************************************************)
(* Pattern dictionary and field builder.                                   *)
(***************************************************************************)
\* The dataclass ExtractedField with its defaults; page_number, coordinates,
\* value and options are never set by the pass and keep their defaults.
ExtractedField(item_number, label, field_type, is_parent, is_subfield, parent_number) ==
    [item_number |-> item_number, label |-> label, field_type |-> field_type,
     is_parent |-> is_parent, is_subfield |-> is_subfield,
     parent_number |-> parent_number, page_number |-> 1,
     coordinates |-> None, value |-> None, options |-> None]

\* self.subfield_patterns
subfield_patterns ==
    [name |-> <<"Family Name (Last Name)", "Given Name (First Name)", "Middle Name">>,
     address |-> <<"Street Number and Name", "Apt. Ste. Flr. Number", "City or Town",
                   "State", "ZIP Code">>,
     mailing_same |-> <<"Same as current physical address">>,
     phone |-> <<"Daytime Telephone Number", "Mobile Telephone Number">>]

subfield_triggers ==
    {"full legal name", "legal name", "your name", "current physical address",
     "physical address", "mailing address", "home address", "telephone number",
     "phone number"}

\* should_create_subfields without the lower-casing of the label.
should_create_subfields_cased(label) == ContainsAny(label, subfield_triggers)

should_create_subfields(label) == ContainsAny(Lower(label), subfield_triggers)

\* detect_field_type with the number test ahead of the others.
detect_field_type_number_first(label) ==
    LET label_lower == Lower(label)
    IN  IF ContainsAny(label_lower, {"number", "zip", "code"}) THEN "number"
        ELSE IF ContainsAny(label_lower, {"date", "birth", "expiry"}) THEN "date"
        ELSE IF ContainsAny(label_lower, {"phone", "telephone", "mobile"}) THEN "tel"
        ELSE IF Contains(label_lower, "email") THEN "email"
        ELSE IF ContainsAny(label_lower, {"yes", "no", "check"}) THEN "radio"
        ELSE "text"

detect_field_type(label) ==
    LET label_lower == Lower(label)
    IN  IF ContainsAny(label_lower, {"date", "birth", "expiry"}) THEN "date"
        ELSE IF ContainsAny(label_lower, {"phone", "telephone", "mobile"}) THEN "tel"
        ELSE IF Contains(label_lower, "email") THEN "email"
        ELSE IF ContainsAny(label_lower, {"number", "zip", "code"}) THEN "number"
        ELSE IF ContainsAny(label_lower, {"yes", "no", "check"}) THEN "radio"
        ELSE "text"

\* The chain with a mailing branch that leaves the acknowledgment label out.
subfield_labels_no_ack(parent_label) ==
    LET label_lower == Lower(parent_label)
    IN  IF Contains(label_lower, "name") THEN subfield_patterns.name
        ELSE IF Contains(label_lower, "address") THEN subfield_patterns.address
        ELSE IF Contains(label_lower, "phone") \/ Contains(label_lower, "telephone")
             THEN subfield_patterns.phone
        ELSE <<"Field A", "Field B", "Field C">>

\* The chain without its telephone branch.
subfield_labels_no_phone(parent_label) ==
    LET label_lower == Lower(parent_label)
    IN  IF Contains(label_lower, "name") THEN subfield_patterns.name
        ELSE IF Contains(label_lower, "address") /\ ~Contains(label_lower, "mailing")
             THEN subfield_patterns.address
        ELSE IF Contains(label_lower, "mailing")
             THEN subfield_patterns.mailing_same \o subfield_patterns.address
        ELSE <<"Field A", "Field B", "Field C">>

\* The if/elif chain of create_subfields that selects the label template.
subfield_labels(parent_label) ==
    LET label_lower == Lower(parent_label)
    IN  IF Contains(label_lower, "name") THEN subfield_patterns.name
        ELSE IF Contains(label_lower, "address") /\ ~Contains(label_lower, "mailing")
             THEN subfield_patterns.address
        ELSE IF Contains(label_lower, "mailing")
             THEN subfield_patterns.mailing_same \o subfield_patterns.address
        ELSE IF Contains(label_lower, "phone") \/ Contains(label_lower, "telephone")
             THEN subfield_patterns.phone
        ELSE <<"Field A", "Field B", "Field C">>

\* f"{parent_num}.{chr(97 + i)}" for the subfield at position n (from 0)
subfield_num(parent_num, n) == parent_num \o "." \o Chr97(n)

\* create_subfields that leaves is_subfield at its default.
create_subfields_unflagged(parent_num, parent_label) ==
    LET labels == subfield_labels(parent_label)
    IN  [k \in 1..Len(labels) |->
            ExtractedField(subfield_num(parent_num, k - 1), labels[k],
                           detect_field_type(labels[k]), FALSE, FALSE, parent_num)]

create_subfields(parent_num, parent_label) ==
    LET labels == subfield_labels(parent_label)
    IN  [k \in 1..Len(labels) |->
            ExtractedField(subfield_num(parent_num, k - 1), labels[k],
                           detect_field_type(labels[k]), FALSE, TRUE, parent_num)]

(***************************************************************************)
(* The extraction pass, one action per kind of loop iteration.             *)
(***************************************************************************)
\* Lines the model builds its texts from.
LineSet ==
    {"1. Full Legal Name",
     "2. Date of Birth",
     "",
     "Part 1. About You",
     " 1.Mailing Address\r",
     "Signature",
     "3. Legal Name, Part2. above",
     "4. Home Telephone Number"}

RECURSIVE TextsOf(_)
\* The texts of exactly n lines of LineSet, joined by newlines.
TextsOf(n) ==
    IF n = 1 THEN LineSet
    ELSE {l \o "\n" \o t : l \in LineSet, t \in TextsOf(n - 1)}

\* A dict store d[k] = v.
DictPut(d, k, v) == [j \in (DOMAIN d) \cup {k} |-> IF j = k THEN v ELSE d[j]]

\* The value of a call that ends without a return statement, and of a call
\* that returns a list.
NoneValue == [kind |-> "None", items |-> <<>>]

ListValue(items) == [kind |-> "list", items |-> items]

\* What extract_parts_and_fields hands back when its loop is over: the
\* function body ends after the loop, with no return statement.
pass_result(fields) == NoneValue

\* A pass that goes on with the list of the pass before it.
kept_fields == extracted_fields

\* The list a pass starts to accumulate into.
fresh_fields == <<>>

\* A store that replaces the whole map by the one new entry.
store_hierarchy_alone(h, item_num, label, subfields) ==
    DictPut(<<>>, item_num,
            [label |-> label,
             subfields |-> [k \in 1..Len(subfields) |-> subfields[k].label]])

\* self.field_hierarchy[item_num] = {"label": ..., "subfields": [...]}
store_hierarchy(h, item_num, label, subfields) ==
    DictPut(h, item_num,
            [label |-> label,
             subfields |-> [k \in 1..Len(subfields) |-> subfields[k].label]])

\* The parent appended after its subfields.
emit_parent_after(fields, parent_field, subfields) ==
    Append(fields \o subfields, parent_field)

\* extracted_fields.append(parent_field); extracted_fields.extend(subfields)
emit_parent(fields, parent_field, subfields) == Append(fields, parent_field) \o subfields

\* The loop variable after `line = line.strip()`.
cur_line == Strip(lines[i])

\* The item number taken from the running counter instead of the line.
item_num_counted == ToString(item_counter)

item_num == item_groups(cur_line).g1

item_label == Strip(item_groups(cur_line).g2)

InLoop == pc = "loop" /\ i <= Len(lines)

locals_kept ==
    UNCHANGED <<pc, text, lines, ret, runs, last_text, last_fields, used,
                call_hierarchy, call_debug>>

others_kept == UNCHANGED <<form_vars, builder_vars, pdf_vars>>

\* USCISFormExtractor(): a new extractor object replaces the current one.
NewExtractor ==
    /\ pc = "idle"
    /\ field_hierarchy' = <<>>
    /\ debug_info' = <<>>
    /\ UNCHANGED <<pc, text, lines, i, extracted_fields, current_part, item_counter,
                   ret, runs, last_text, last_fields, used, call_hierarchy, call_debug>>
    /\ others_kept

\* A pass that empties the extractor's map and trace when it is entered.
Call_reset ==
    /\ pc = "idle"
    /\ \E n \in 1..(MaxLines - used) : \E t \in TextsOf(n) :
          /\ text' = t
          /\ lines' = Split(t)
          /\ used' = used + n
    /\ pc' = "loop"
    /\ i' = 1
    /\ extracted_fields' = fresh_fields
    /\ current_part' = None
    /\ item_counter' = 1
    /\ last_text' = text
    /\ last_fields' = extracted_fields
    /\ call_hierarchy' = field_hierarchy
    /\ call_debug' = debug_info
    /\ field_hierarchy' = <<>>
    /\ debug_info' = <<>>
    /\ UNCHANGED <<ret, runs>>
    /\ others_kept

\* extractor.extract_parts_and_fields(t) is entered.
Call ==
    /\ pc = "idle"
    /\ \E n \in 1..(MaxLines - used) : \E t \in TextsOf(n) :
          /\ text' = t
          /\ lines' = Split(t)
          /\ used' = used + n
    /\ pc' = "loop"
    /\ i' = 1
    /\ extracted_fields' = fresh_fields
    /\ current_part' = None
    /\ item_counter' = 1
    /\ last_text' = text
    /\ last_fields' = extracted_fields
    /\ call_hierarchy' = field_hierarchy
    /\ call_debug' = debug_info
    /\ UNCHANGED <<field_hierarchy, debug_info, ret, runs>>
    /\ others_kept

\* `if not line: continue`
SkipBlank ==
    /\ InLoop
    /\ cur_line = ""
    /\ i' = i + 1
    /\ UNCHANGED <<field_hierarchy, debug_info, extracted_fields, current_part,
                   item_counter>>
    /\ locals_kept
    /\ others_kept

\* A Part header: the context value and the trace change, no field is made.
PartHeader ==
    /\ InLoop
    /\ cur_line # ""
    /\ part_match(cur_line)
    /\ current_part' = "Part " \o part_groups(cur_line).g1
    /\ debug_info' = Append(debug_info,
                            "Found " \o current_part' \o ": " \o part_groups(cur_line).g2)
    /\ i' = i + 1
    /\ UNCHANGED <<field_hierarchy, extracted_fields, item_counter>>
    /\ locals_kept
    /\ others_kept

\* A numbered item whose label triggers the expansion into subfields.
NumberedParent ==
    /\ InLoop
    /\ cur_line # ""
    /\ ~part_match(cur_line)
    /\ item_match(cur_line)
    /\ should_create_subfields(item_label)
    /\ LET parent_field == ExtractedField(item_num, item_label, "parent", TRUE, FALSE, None)
           subfields == create_subfields(item_num, item_label)
       IN  /\ extracted_fields' = emit_parent(extracted_fields, parent_field, subfields)
           /\ field_hierarchy' =
                  store_hierarchy(field_hierarchy, item_num, item_label, subfields)
    /\ item_counter' = item_counter + 1
    /\ debug_info' = Append(debug_info,
                            "Extracted item " \o item_num \o ": " \o item_label)
    /\ i' = i + 1
    /\ UNCHANGED current_part
    /\ locals_kept
    /\ others_kept

\* A numbered item that stays one regular field.
NumberedRegular ==
    /\ InLoop
    /\ cur_line # ""
    /\ ~part_match(cur_line)
    /\ item_match(cur_line)
    /\ ~should_create_subfields(item_label)
    /\ extracted_fields' =
           Append(extracted_fields,
                  ExtractedField(item_num, item_label, detect_field_type(item_label),
                                 FALSE, FALSE, None))
    /\ item_counter' = item_counter + 1
    /\ debug_info' = Append(debug_info,
                            "Extracted item " \o item_num \o ": " \o item_label)
    /\ i' = i + 1
    /\ UNCHANGED <<field_hierarchy, current_part>>
    /\ locals_kept
    /\ others_kept

\* An inert line that leaves an entry in the trace.
Inert_logged ==
    /\ InLoop
    /\ cur_line # ""
    /\ ~part_match(cur_line)
    /\ ~item_match(cur_line)
    /\ debug_info' = Append(debug_info, "Skipped: " \o cur_line)
    /\ i' = i + 1
    /\ UNCHANGED <<field_hierarchy, extracted_fields, current_part, item_counter>>
    /\ locals_kept
    /\ others_kept

\* Neither pattern matches: the iteration changes nothing.
Inert ==
    /\ InLoop
    /\ cur_line # ""
    /\ ~part_match(cur_line)
    /\ ~item_match(cur_line)
    /\ i' = i + 1
    /\ UNCHANGED <<field_hierarchy, debug_info, extracted_fields, current_part,
                   item_counter>>
    /\ locals_kept
    /\ others_kept

\* The loop is over and the call ends.
Return ==
    /\ pc = "loop"
    /\ i > Len(lines)
    /\ ret' = pass_result(extracted_fields)
    /\ pc' = "idle"
    /\ runs' = runs + 1
    /\ UNCHANGED <<field_hierarchy, debug_info, text, lines, i, extracted_fields,
                   current_part, item_counter, last_text, last_fields, used,
                   call_hierarchy, call_debug>>
    /\ others_kept

\* No library call succeeds.
NoLibrary ==
    [simple |-> FALSE, pipeline |-> FALSE, basic |-> FALSE, fitz |-> FALSE,
     pypdf2 |-> FALSE]

\* No converter has returned a document.
NoDocument == [text |-> "none", markdown |-> "none", tables |-> "none", items |-> <<>>]

\* The field builder has not been called.
NoCall == [fn |-> "none"]

\* The state after USCISFormExtractor.__init__, no pass made yet.
Init ==
    /\ field_hierarchy = <<>>
    /\ debug_info = <<>>
    /\ pc = "idle"
    /\ text = ""
    /\ lines = <<>>
    /\ i = 1
    /\ extracted_fields = <<>>
    /\ current_part = None
    /\ item_counter = 1
    /\ ret = [kind |-> "unset", items |-> <<>>]
    /\ runs = 0
    /\ last_text = ""
    /\ last_fields = <<>>
    /\ used = 0
    /\ form_text = ""
    /\ form_type = None
    /\ b_num = ""
    /\ b_label = ""
    /\ b_out = NoCall
    /\ call_hierarchy = <<>>
    /\ call_debug = <<>>
    /\ DOCLING_AVAILABLE = FALSE
    /\ DOCLING_PIPELINE = FALSE
    /\ PYMUPDF_AVAILABLE = FALSE
    /\ PYPDF2_AVAILABLE = FALSE
    /\ pdf_file = [readable |-> TRUE]
    /\ lib = NoLibrary
    /\ document = NoDocument
    /\ pdf_pc = "idle"
    /\ attempts = <<>>
    /\ content = [kind |-> "unset"]

(***************************************************************************)
(* The form-type detector.                                                 *)
(***************************************************************************)
\* form_patterns, in the order of the dict literal: the form identifier, and
\* the two alternatives of its pattern, a literal code and a phrase whose
\* words are separated by \s+.
form_patterns ==
    <<[form_type |-> "I-485", code |-> "I-485",
       phrase |-> <<"Application", "to", "Register", "Permanent", "Residence">>],
      [form_type |-> "I-539", code |-> "I-539",
       phrase |-> <<"Application", "to", "Extend/Change", "Nonimmigrant", "Status">>],
      [form_type |-> "I-765", code |-> "I-765",
       phrase |-> <<"Application", "for", "Employment", "Authorization">>],
      [form_type |-> "I-130", code |-> "I-130",
       phrase |-> <<"Petition", "for", "Alien", "Relative">>],
      [form_type |-> "I-129", code |-> "I-129",
       phrase |-> <<"Petition", "for", "Nonimmigrant", "Worker">>],
      [form_type |-> "N-400", code |-> "N-400",
       phrase |-> <<"Application", "for", "Naturalization">>]>>

\* The literal w, letter case ignored, stands at position p of s.
LiteralAt(s, p, w) ==
    /\ p + Len(w) - 1 <= Len(s)
    /\ Lower(SubSeq(s, p, p + Len(w) - 1)) = Lower(w)

RECURSIVE PhraseAt(_, _, _)
\* The words, each separated from the next by \s+, stand at position p of s.
PhraseAt(s, p, words) ==
    /\ LiteralAt(s, p, Head(words))
    /\ \/ Len(words) = 1
       \/ LET q == p + Len(Head(words))
          IN  /\ SpaceRun(s, q) > 0
              /\ PhraseAt(s, q + SpaceRun(s, q), Tail(words))

\* re.search(pattern, text, re.IGNORECASE) for one entry of form_patterns
form_search(pat, s) ==
    \E p \in 1..Len(s) : LiteralAt(s, p, pat.code) \/ PhraseAt(s, p, pat.phrase)

\* The loop that keeps the last matching identifier instead of the first.
detect_form_type_last(s) ==
    IF \E k \in 1..Len(form_patterns) : form_search(form_patterns[k], s)
    THEN form_patterns[CHOOSE k \in 1..Len(form_patterns) :
                           /\ form_search(form_patterns[k], s)
                           /\ \A j \in (k + 1)..Len(form_patterns) :
                                 ~form_search(form_patterns[j], s)
                      ].form_type
    ELSE "Unknown"

\* The for loop over form_patterns.items() and the final return "Unknown".
detect_form_type(s) ==
    IF \E k \in 1..Len(form_patterns) : form_search(form_patterns[k], s)
    THEN form_patterns[CHOOSE k \in 1..Len(form_patterns) :
                           /\ form_search(form_patterns[k], s)
                           /\ \A j \in 1..(k - 1) : ~form_search(form_patterns[j], s)
                      ].form_type
    ELSE "Unknown"

\* Fragments the model builds the detector's texts from.
FormFragments ==
    {"I-485", "i-539", "I-765", "Form I-130 ", "I-129", "n-400",
     "Petition for\nAlien  Relative", "APPLICATION TO REGISTER", " Permanent Residence",
     "I-48", "Application for Naturalisation\n"}

RECURSIVE FormTextsOf(_)
\* The texts made of exactly n fragments.
FormTextsOf(n) ==
    IF n = 0 THEN {""}
    ELSE {f \o t : f \in FormFragments, t \in FormTextsOf(n - 1)}

FormTexts == UNION {FormTextsOf(n) : n \in 0..MaxFrags}

\* extractor.detect_form_type(form_text)
DetectFormType ==
    /\ form_type = None
    /\ form_type' = detect_form_type(form_text)
    /\ UNCHANGED <<pass_vars, form_text, builder_vars, pdf_vars>>

InitForm ==
    /\ Init!1 /\ Init!2 /\ Init!3 /\ Init!4 /\ Init!5 /\ Init!6 /\ Init!7
    /\ Init!8 /\ Init!9 /\ Init!10 /\ Init!11 /\ Init!12 /\ Init!13 /\ Init!14
    /\ form_text \in FormTexts
    /\ form_type = None
    /\ Init!17 /\ Init!18 /\ Init!19 /\ Init!20 /\ Init!21
    /\ Init!22 /\ Init!23 /\ Init!24 /\ Init!25 /\ Init!26 /\ Init!27 /\ Init!28
    /\ Init!29 /\ Init!30 /\ Init!31

NextForm == DetectFormType

SpecForm == InitForm /\ [][NextForm]_vars

(***************************************************************************)
(* The field builder, called on its own.                                   *)
(***************************************************************************)
\* Phrases the model builds the builder's labels from.
LabelWords ==
    {"Mailing Address", "Name", "Full Legal Name", "Your", "PHYSICAL ADDRESS",
     "Phone Number", "Telephone", "Date of Birth", "Email", "Zip Code", "(if any)",
     "Yes or No"}

RECURSIVE LabelsOf(_)
\* The labels made of exactly n phrases, joined by one blank.
LabelsOf(n) ==
    IF n = 1 THEN LabelWords
    ELSE {w \o " " \o l : w \in LabelWords, l \in LabelsOf(n - 1)}

Labels == UNION {LabelsOf(n) : n \in 1..MaxWords}

\* Item numbers the builder is called with.
ItemNumbers == {"1", "12"}

\* extractor.should_create_subfields(b_label)
ShouldCreateSubfields ==
    /\ b_out = NoCall
    /\ b_out' = [fn |-> "should_create_subfields", val |-> should_create_subfields(b_label)]
    /\ UNCHANGED <<pass_vars, form_vars, b_num, b_label, pdf_vars>>

\* extractor.create_subfields(b_num, b_label)
CreateSubfields ==
    /\ b_out = NoCall
    /\ b_out' = [fn |-> "create_subfields", val |-> create_subfields(b_num, b_label)]
    /\ UNCHANGED <<pass_vars, form_vars, b_num, b_label, pdf_vars>>

\* extractor.detect_field_type(b_label)
DetectFieldType ==
    /\ b_out = NoCall
    /\ b_out' = [fn |-> "detect_field_type", val |-> detect_field_type(b_label)]
    /\ UNCHANGED <<pass_vars, form_vars, b_num, b_label, pdf_vars>>

InitBuilder ==
    /\ Init!1 /\ Init!2 /\ Init!3 /\ Init!4 /\ Init!5 /\ Init!6 /\ Init!7
    /\ Init!8 /\ Init!9 /\ Init!10 /\ Init!11 /\ Init!12 /\ Init!13 /\ Init!14
    /\ Init!15 /\ Init!16
    /\ b_num \in ItemNumbers
    /\ b_label \in Labels
    /\ b_out = NoCall
    /\ Init!20 /\ Init!21
    /\ Init!22 /\ Init!23 /\ Init!24 /\ Init!25 /\ Init!26 /\ Init!27 /\ Init!28
    /\ Init!29 /\ Init!30 /\ Init!31

NextBuilder ==
    \/ ShouldCreateSubfields
    \/ CreateSubfields
    \/ DetectFieldType

SpecBuilder == InitBuilder /\ [][NextBuilder]_vars

(***************************************************************************)
(* extract_pdf_content: Docling, then PyMuPDF, then PyPDF2.                *)
(*                                                                         *)
(* The upload and the libraries are the environment: whether               *)
(* pdf_file.getvalue() returns and which library calls return is fixed by  *)
(* Init for one call (a library that was not imported has no calls); the   *)
(* document a library opens is chosen when the call returns.  Values the   *)
(* libraries compute (page texts, table data) are named, not computed.     *)
(* Trace entries are spelled without the pictograph some of them begin     *)
(* with.                                                                   *)
(***************************************************************************)
\* str(e) of an exception raised by the environment.
exc == "<exception>"

\* A successful result: the content dict of the method that made it.
Content(method, txt, markdown) ==
    [kind |-> "content", by |-> method, text |-> txt, markdown |-> markdown,
     tables |-> <<>>, fields |-> <<>>]

\* A result that holds only the key "error".
Error(msg) == [kind |-> "error", error |-> msg]

RECURSIVE PageTexts(_)
\* The text both fallback methods build: the text of each of the first n
\* pages followed by a newline.
PageTexts(n) ==
    IF n = 0 THEN "" ELSE PageTexts(n - 1) \o "page " \o ToString(n) \o "\n"

\* How a method that was entered came out.
Outcome(ok) == IF ok THEN "ok" ELSE "failed"

\* The method entered last has ended.
Ended(tried, ok) == [tried EXCEPT ![Len(tried)].outcome = Outcome(ok)]

\* The pass and the other callers stand still, but for the trace.
pdf_frame ==
    UNCHANGED <<field_hierarchy, pc, text, lines, i, extracted_fields, current_part,
                item_counter, ret, runs, last_text, last_fields, used, call_hierarchy,
                call_debug, form_vars, builder_vars, flag_vars, pdf_file, lib>>

\* The tables a document may hold: a table gives its data through
\* export_to_dataframe, through its attribute data, or not at all, has a
\* bbox or none, or raises when it is read.
Tables ==
    [export : {"dataframe", "data", "bare"}, bbox : BOOLEAN]
        \cup {[export |-> "raises", bbox |-> FALSE]}

RECURSIVE TableListsOf(_)
\* The lists of exactly n tables.
TableListsOf(n) ==
    IF n = 0 THEN {<<>>}
    ELSE {Append(l, t) : l \in TableListsOf(n - 1), t \in Tables}

\* The documents a converter may return: export_to_text and
\* export_to_markdown each return, raise or are absent; the attribute tables
\* is a list, is absent, or raises when it is read.
Documents ==
    {[text |-> t, markdown |-> m, tables |-> "list", items |-> l] :
        t \in {"ok", "raises", "absent"}, m \in {"ok", "raises", "absent"},
        l \in UNION {TableListsOf(n) : n \in 0..MaxTables}}
    \cup
    {[text |-> t, markdown |-> m, tables |-> a, items |-> <<>>] :
        t \in {"ok", "raises", "absent"}, m \in {"ok", "raises", "absent"},
        a \in {"absent", "raises"}}

\* extract_pdf_content is entered: Docling first if it is there, else the
\* fallback at once.
ExtractPdfContent ==
    /\ pdf_pc = "idle"
    /\ IF DOCLING_AVAILABLE
       THEN /\ debug_info' = Append(debug_info, "Attempting extraction with Docling...")
            /\ attempts' = Append(attempts, [method |-> "Docling", outcome |-> "running"])
            /\ pdf_pc' = "docling"
       ELSE /\ debug_info' = Append(debug_info,
                                    "Falling back to alternative PDF extraction...")
            /\ attempts' = attempts
            /\ pdf_pc' = "fallback"
    /\ UNCHANGED <<content, document>>
    /\ pdf_frame

\* extract_with_docling writes the upload to a temporary file and tries the
\* simple DocumentConverter.
DoclingSimple ==
    /\ pdf_pc = "docling"
    /\ pdf_file.readable
    /\ IF lib.simple
       THEN /\ debug_info' = debug_info \o <<"Attempting Docling extraction...",
                                             "Simple DocumentConverter worked">>
            /\ document' \in Documents
            /\ pdf_pc' = "docling_export"
       ELSE /\ debug_info' = debug_info \o <<"Attempting Docling extraction...",
                                             "Simple converter failed: " \o exc>>
            /\ UNCHANGED document
            /\ pdf_pc' = "docling_pipeline"
    /\ UNCHANGED <<attempts, content>>
    /\ pdf_frame

\* The converter with pipeline options, if those were imported.
DoclingPipeline ==
    /\ pdf_pc = "docling_pipeline"
    /\ IF DOCLING_PIPELINE /\ lib.pipeline
       THEN /\ debug_info' = Append(debug_info, "Pipeline converter worked")
            /\ document' \in Documents
            /\ pdf_pc' = "docling_export"
       ELSE /\ debug_info' =
                  Append(debug_info,
                         "Pipeline converter failed: " \o
                             (IF DOCLING_PIPELINE THEN exc
                              ELSE "Pipeline options not available"))
            /\ UNCHANGED document
            /\ pdf_pc' = "docling_basic"
    /\ UNCHANGED <<attempts, content>>
    /\ pdf_frame

\* The basic converter with warnings suppressed; its exception is raised on.
DoclingBasic ==
    /\ pdf_pc = "docling_basic"
    /\ IF lib.basic
       THEN /\ debug_info' =
                  Append(debug_info, "Basic converter with warnings suppressed worked")
            /\ document' \in Documents
            /\ pdf_pc' = "docling_export"
       ELSE /\ debug_info' = Append(debug_info, "Basic converter failed: " \o exc)
            /\ UNCHANGED document
            /\ pdf_pc' = "docling_raised"
    /\ UNCHANGED <<attempts, content>>
    /\ pdf_frame

\* content["text"] and the trace entry of the text export.
docling_text ==
    CASE document.text = "ok" -> [val |-> "docling text", log |-> "Text extraction successful"]
      [] document.text = "absent" ->
             [val |-> "str(document)", log |-> "Used fallback text extraction"]
      [] OTHER -> [val |-> "Text extraction failed",
                   log |-> "Text extraction failed: " \o exc]

\* content["markdown"] and the trace entry of the markdown export.
docling_markdown ==
    CASE document.markdown = "ok" ->
             [val |-> "docling markdown", log |-> "Markdown extraction successful"]
      [] document.markdown = "absent" ->
             [val |-> docling_text.val, log |-> "Used text as markdown fallback"]
      [] OTHER -> [val |-> docling_text.val,
                   log |-> "Markdown extraction failed: " \o exc]

\* table_data of one table that can be read.
table_data(t) ==
    LET data == CASE t.export = "dataframe" -> [of |-> "export_to_dataframe().to_dict()"]
                  [] t.export = "data" -> [of |-> "data"]
                  [] OTHER ->
                         [note |-> "Table structure detected but data extraction not available"]
    IN  IF t.bbox THEN [data |-> data, bbox |-> [of |-> "bbox"]] ELSE [data |-> data]

RECURSIVE docling_tables(_, _)
\* content["tables"] and the trace entries of the first n tables: table_data
\* and "Extracted table i+1" for a table that can be read, "Table i
\* extraction failed" for one that raises (i from 0).
docling_tables(items, n) ==
    IF n = 0 THEN [val |-> <<>>, log |-> <<>>]
    ELSE LET before == docling_tables(items, n - 1)
             t == items[n]
         IN  IF t.export = "raises"
             THEN [val |-> before.val,
                   log |-> Append(before.log,
                                  "Table " \o ToString(n - 1) \o " extraction failed: "
                                      \o exc)]
             ELSE [val |-> Append(before.val, table_data(t)),
                   log |-> Append(before.log, "Extracted table " \o ToString(n))]

\* The tables step of extract_with_docling.
docling_table_step ==
    CASE document.tables = "raises" ->
             [val |-> <<>>, log |-> <<"Tables extraction failed: " \o exc>>]
      [] document.tables = "list" /\ document.items # <<>> ->
             docling_tables(document.items, Len(document.items))
      [] OTHER -> [val |-> <<>>, log |-> <<"No tables found or tables not accessible">>]

\* A converter worked: text, markdown and tables are exported, each failure
\* caught, and extract_pdf_content returns the content.
DoclingExport ==
    /\ pdf_pc = "docling_export"
    /\ debug_info' = debug_info \o <<docling_text.log, docling_markdown.log>>
          \o docling_table_step.log
          \o <<"Docling extraction completed. Text length: "
                   \o ToString(Len(docling_text.val))>>
    /\ content' = [Content("Docling", docling_text.val, docling_markdown.val)
                       EXCEPT !.tables = docling_table_step.val]
    /\ attempts' = Ended(attempts, TRUE)
    /\ pdf_pc' = "done"
    /\ UNCHANGED document
    /\ pdf_frame

\* extract_pdf_content hands the error result of Docling to its caller.
docling_failed_returns(msg) ==
    /\ debug_info' = debug_info \o <<msg, "Docling failed: " \o msg>>
    /\ attempts' = Ended(attempts, FALSE)
    /\ content' = Error(msg)
    /\ pdf_pc' = "done"
    /\ UNCHANGED document

\* What extract_pdf_content does with the error result of Docling: it logs
\* the error and goes on to the fallback.
docling_failed(msg) ==
    /\ debug_info' = debug_info \o <<msg, "Docling failed: " \o msg,
                                     "Falling back to alternative PDF extraction...">>
    /\ attempts' = Ended(attempts, FALSE)
    /\ pdf_pc' = "fallback"
    /\ UNCHANGED <<content, document>>

\* Docling raised (the upload could not be read, or the last converter
\* failed): extract_with_docling returns an error and the fallback begins.
DoclingError ==
    /\ \/ pdf_pc = "docling" /\ ~pdf_file.readable
       \/ pdf_pc = "docling_raised"
    /\ docling_failed("Error extracting with Docling: " \o exc)
    /\ pdf_frame

\* extract_with_fallback reads the upload; if that raises, the outer except
\* returns an error.
Fallback ==
    /\ pdf_pc = "fallback"
    /\ IF pdf_file.readable
       THEN /\ pdf_pc' = "pymupdf"
            /\ UNCHANGED content
       ELSE /\ pdf_pc' = "done"
            /\ content' = Error("Fallback extraction failed: " \o exc)
    /\ UNCHANGED <<debug_info, attempts, document>>
    /\ pdf_frame

\* PyMuPDF, if imported: its text is returned, or its failure is logged.
PyMuPDF ==
    /\ pdf_pc = "pymupdf"
    /\ IF PYMUPDF_AVAILABLE
       THEN /\ attempts' = Append(attempts, [method |-> "PyMuPDF", outcome |-> Outcome(lib.fitz)])
            /\ IF lib.fitz
               THEN /\ \E pages \in 0..MaxPages :
                        content' = Content("PyMuPDF", PageTexts(pages), PageTexts(pages))
                    /\ pdf_pc' = "done"
                    /\ UNCHANGED debug_info
               ELSE /\ debug_info' = Append(debug_info, "PyMuPDF failed: " \o exc)
                    /\ pdf_pc' = "pypdf2"
                    /\ UNCHANGED content
       ELSE /\ pdf_pc' = "pypdf2"
            /\ UNCHANGED <<debug_info, attempts, content>>
    /\ UNCHANGED document
    /\ pdf_frame

\* PyPDF2, if imported: its text is returned, or its failure is logged and
\* the final error is returned.
PyPDF2 ==
    /\ pdf_pc = "pypdf2"
    /\ pdf_pc' = "done"
    /\ IF PYPDF2_AVAILABLE
       THEN /\ attempts' = Append(attempts, [method |-> "PyPDF2", outcome |-> Outcome(lib.pypdf2)])
            /\ IF lib.pypdf2
               THEN /\ \E pages \in 0..MaxPages :
                        content' = Content("PyPDF2", PageTexts(pages), PageTexts(pages))
                    /\ UNCHANGED debug_info
               ELSE /\ debug_info' = Append(debug_info, "PyPDF2 failed: " \o exc)
                    /\ content' = Error("No PDF extraction library available")
       ELSE /\ content' = Error("No PDF extraction library available")
            /\ UNCHANGED <<debug_info, attempts>>
    /\ UNCHANGED document
    /\ pdf_frame

\* How a call into a library may come out (TRUE: it returns, FALSE: it
\* raises); a library that was not imported is never called.
Calls(imported) == IF imported THEN BOOLEAN ELSE {FALSE}

\* A new extractor, any import outcome, any upload, any library behaviour.
InitPdf ==
    /\ Init!1 /\ Init!2 /\ Init!3 /\ Init!4 /\ Init!5 /\ Init!6 /\ Init!7
    /\ Init!8 /\ Init!9 /\ Init!10 /\ Init!11 /\ Init!12 /\ Init!13 /\ Init!14
    /\ Init!15 /\ Init!16 /\ Init!17 /\ Init!18 /\ Init!19 /\ Init!20 /\ Init!21
    /\ DOCLING_AVAILABLE \in BOOLEAN
    /\ DOCLING_PIPELINE \in (IF DOCLING_AVAILABLE THEN BOOLEAN ELSE {FALSE})
    /\ PYMUPDF_AVAILABLE \in BOOLEAN
    /\ PYPDF2_AVAILABLE \in BOOLEAN
    /\ pdf_file \in [readable : BOOLEAN]
    /\ lib \in [simple : Calls(DOCLING_AVAILABLE), pipeline : Calls(DOCLING_PIPELINE),
                basic : Calls(DOCLING_AVAILABLE), fitz : Calls(PYMUPDF_AVAILABLE),
                pypdf2 : Calls(PYPDF2_AVAILABLE)]
    /\ Init!28 /\ Init!29 /\ Init!30 /\ Init!31

NextPdf ==
    \/ ExtractPdfContent
    \/ DoclingSimple
    \/ DoclingPipeline
    \/ DoclingBasic
    \/ DoclingExport
    \/ DoclingError
    \/ Fallback
    \/ PyMuPDF
    \/ PyPDF2

SpecPdf == InitPdf /\ [][NextPdf]_vars

Next ==
    \/ NewExtractor
    \/ Call
    \/ SkipBlank
    \/ PartHeader
    \/ NumberedParent
    \/ NumberedRegular
    \/ Inert
    \/ Return

Spec == Init /\ [][Next]_vars

(***************************************************************************)
(* Properties of the extraction pass (specification Spec).                 *)
(***************************************************************************)
\* A pass has run to its end and its caller holds the returned value.
Returned == pc = "idle" /\ runs > 0

\* Some line of the text t matches the numbered-item pattern.
HasNumberedLine(t) ==
    \E k \in 1..Len(Split(t)) : item_match(Strip(Split(t)[k]))

\* The line of the current iteration is classified as a numbered item.
AtNumberedItem == InLoop /\ cur_line # "" /\ ~part_match(cur_line) /\ item_match(cur_line)

\* The step is one of a pass (its call, an iteration, its return), not the
\* replacement of the extractor.
PassStep == pc = "loop" \/ pc' = "loop"

C1_Text == "1. Full Legal Name\n2. Date of Birth\n"

C1_Fields ==
    <<ExtractedField("1", "Full Legal Name", "parent", TRUE, FALSE, None),
      ExtractedField("1.a", "Family Name (Last Name)", "text", FALSE, TRUE, "1"),
      ExtractedField("1.b", "Given Name (First Name)", "text", FALSE, TRUE, "1"),
      ExtractedField("1.c", "Middle Name", "text", FALSE, TRUE, "1"),
      ExtractedField("2", "Date of Birth", "date", FALSE, FALSE, None)>>

\* C1: the pass returns to its caller the sequence it accumulated; for the
\* text "1. Full Legal Name\n2. Date of Birth\n" the returned value is the
\* five records parent 1, 1.a, 1.b, 1.c and the date field 2.
C1_ReturnsAccumulatedFields ==
    (Returned /\ text = C1_Text) =>
        /\ ret = ListValue(extracted_fields)
        /\ ret = ListValue(C1_Fields)

\* C2: for a text without any numbered-item line the pass ends, its output
\* is the empty sequence and the hierarchy map is empty.
C2_NoNumberedLineGivesEmptyOutput ==
    (Returned /\ ~HasNumberedLine(text)) =>
        /\ ret = ListValue(<<>>)
        /\ field_hierarchy = <<>>

\* The records after the step are those before it, then the parent record of
\* the current line and the three subfields of the name template.
C3_NameBlockAdded ==
    extracted_fields' = extracted_fields \o
        <<[item_number |-> item_num, label |-> item_label, field_type |-> "parent",
           is_parent |-> TRUE, is_subfield |-> FALSE, parent_number |-> None,
           page_number |-> 1, coordinates |-> None, value |-> None,
           options |-> None],
          [item_number |-> item_num \o ".a", label |-> "Family Name (Last Name)",
           field_type |-> "text", is_parent |-> FALSE, is_subfield |-> TRUE,
           parent_number |-> item_num, page_number |-> 1, coordinates |-> None,
           value |-> None, options |-> None],
          [item_number |-> item_num \o ".b", label |-> "Given Name (First Name)",
           field_type |-> "text", is_parent |-> FALSE, is_subfield |-> TRUE,
           parent_number |-> item_num, page_number |-> 1, coordinates |-> None,
           value |-> None, options |-> None],
          [item_number |-> item_num \o ".c", label |-> "Middle Name",
           field_type |-> "text", is_parent |-> FALSE, is_subfield |-> TRUE,
           parent_number |-> item_num, page_number |-> 1, coordinates |-> None,
           value |-> None, options |-> None]>>

\* C3: every numbered line "<n>. <label>" whose label contains "legal name"
\* in any letter case adds exactly the parent record n and then the three
\* subfields n.a, n.b, n.c with the labels of the name template, in order.
C3_EveryLegalNameLineExpands ==
    [][(/\ InLoop /\ cur_line # "" /\ item_match(cur_line)
        /\ Contains(Lower(item_label), "legal name")) => C3_NameBlockAdded]_vars

\* C3 as amended: every numbered line "<n>. <label>" that holds no match of
\* the Part-header pattern anywhere and whose label contains "legal name" in
\* any letter case adds exactly that parent record and those three subfields.
C3_LegalNameExpansion ==
    [][(AtNumberedItem /\ Contains(Lower(item_label), "legal name")) =>
          C3_NameBlockAdded]_vars

\* A pass has expanded a "legal name" line after other records were made.
C3_Witness ==
    /\ pc = "loop"
    /\ i > 2
    /\ Contains(Lower(Strip(lines[i - 1])), "legal name")
    /\ Len(extracted_fields) > 4
    /\ extracted_fields[Len(extracted_fields) - 3].is_parent
    /\ extracted_fields[Len(extracted_fields)].item_number = "1.c"

\* C6: a pass on the text of the pass before it, on the same extractor or on
\* a new one, accumulates the same records in the same order.
C6_Idempotent ==
    (Returned /\ runs >= 2 /\ text = last_text) => extracted_fields = last_fields

\* Two passes on the same text with parents, the second on the used extractor.
C6_Witness ==
    /\ Returned
    /\ runs >= 2
    /\ text = last_text
    /\ Len(extracted_fields) > 1
    /\ Len(debug_info) > 1

\* The records of positions p+1 .. p+n of fs are the subfields of the parent
\* at position p, numbered and labelled after the template the parent's
\* label selects.
BlockAfter(fs, p) ==
    LET labels == subfield_labels(fs[p].label)
    IN  /\ p + Len(labels) <= Len(fs)
        /\ \A k \in 1..Len(labels) :
              /\ fs[p + k].is_subfield
              /\ fs[p + k].parent_number = fs[p].item_number
              /\ fs[p + k].item_number = fs[p].item_number \o "." \o Char(LowerAlpha, k)
              /\ fs[p + k].label = labels[k]

\* C7: every subfield of the accumulated sequence lies in the contiguous
\* block that directly follows an earlier parent whose item number is the
\* subfield's parent_number, the block being numbered <parent>.a, .b, ... in
\* the order of the selected template.
C7_SubfieldsFollowTheirParent ==
    \A k \in 1..Len(extracted_fields) :
        extracted_fields[k].is_subfield =>
            \E p \in 1..(k - 1) :
                /\ extracted_fields[p].is_parent
                /\ k - p <= Len(subfield_labels(extracted_fields[p].label))
                /\ BlockAfter(extracted_fields, p)

\* Two parents with different templates have been expanded in one pass.
C7_Witness ==
    /\ Len(extracted_fields) = 11
    /\ extracted_fields[1].is_parent
    /\ extracted_fields[5].is_parent
    /\ extracted_fields[11].item_number = "1.f"

\* C8: every record is exactly one of leaf, parent and subfield: the two
\* flags are never both set, field_type is "parent" exactly for parents and
\* parent_number is set exactly for subfields.
C8_FieldKinds ==
    \A k \in 1..Len(extracted_fields) :
        LET f == extracted_fields[k]
        IN  /\ ~(f.is_parent /\ f.is_subfield)
            /\ (f.field_type = "parent") <=> f.is_parent
            /\ (f.parent_number # None) <=> f.is_subfield

\* A pass has made a leaf, a parent and subfields.
C8_Witness ==
    /\ \E k \in 1..Len(extracted_fields) : extracted_fields[k].is_parent
    /\ \E k \in 1..Len(extracted_fields) : extracted_fields[k].is_subfield
    /\ \E k \in 1..Len(extracted_fields) :
          ~extracted_fields[k].is_parent /\ ~extracted_fields[k].is_subfield

\* C9: once stored, the entry of a parent item number is never changed or
\* replaced by a later line of the same or a later pass.
C9_EntriesNeverChange ==
    [][PassStep =>
          \A n \in DOMAIN field_hierarchy :
              /\ n \in DOMAIN field_hierarchy'
              /\ field_hierarchy'[n] = field_hierarchy[n]]_vars

\* C9 as amended: no step of a pass removes an entry, and an entry changes
\* only when a line classified as numbered item with the same item number is
\* expanded into subfields, which stores that line's label and subfield labels.
C9_EntriesChangeOnlyOnRepeatedNumber ==
    [][PassStep =>
          \A n \in DOMAIN field_hierarchy :
              /\ n \in DOMAIN field_hierarchy'
              /\ field_hierarchy'[n] # field_hierarchy[n] =>
                    /\ AtNumberedItem
                    /\ item_num = n
                    /\ ContainsAny(Lower(item_label), subfield_triggers)
                    /\ field_hierarchy'[n].label = item_label
                    /\ field_hierarchy'[n].subfields = subfield_labels(item_label)]_vars

\* The entry of item 1, stored for "Full Legal Name", has been replaced.
C9_Witness ==
    /\ \E k \in 1..Len(debug_info) : debug_info[k] = "Extracted item 1: Full Legal Name"
    /\ "1" \in DOMAIN field_hierarchy
    /\ field_hierarchy["1"].label = "Mailing Address"
    /\ Len(field_hierarchy["1"].subfields) = 6

\* C10: a line that after trimming matches neither the numbered-item pattern
\* nor the Part-header pattern adds no record, no hierarchy entry and no
\* trace entry; a Part-header line adds no record.
C10_InertLinesAddNothing ==
    [][/\ (InLoop /\ ~part_match(cur_line) /\ ~item_match(cur_line)) =>
             UNCHANGED <<extracted_fields, field_hierarchy, debug_info>>
       /\ (InLoop /\ part_match(cur_line)) =>
             extracted_fields' = extracted_fields]_vars

\* An inert line and a Part header have been passed after a record was made.
C10_Witness ==
    /\ pc = "loop"
    /\ i = 4
    /\ lines = <<"2. Date of Birth", "Signature", "Part 1. About You">>
    /\ Len(extracted_fields) = 1
    /\ Len(debug_info) = 2

\* The iteration adds exactly one top-level record, numbered by the leading
\* integer of the line and labelled by the trimmed remainder after its dot;
\* whatever else it adds are subfields.
C12_OneTopLevelRecord ==
    LET n == Len(extracted_fields)
        d == DigitRun(cur_line, 1)
    IN  /\ Len(extracted_fields') > n
        /\ SubSeq(extracted_fields', 1, n) = extracted_fields
        /\ extracted_fields'[n + 1].item_number = SubSeq(cur_line, 1, d)
        /\ extracted_fields'[n + 1].label = Strip(SubSeq(cur_line, d + 2, Len(cur_line)))
        /\ ~extracted_fields'[n + 1].is_subfield
        /\ \A k \in (n + 2)..Len(extracted_fields') : extracted_fields'[k].is_subfield

\* C12: every non-blank trimmed line that matches the numbered-item pattern
\* yields exactly one top-level record with the leading integer as item
\* number and the trimmed remainder as label, whatever else the line holds.
C12_EveryNumberedLineYieldsRecord ==
    [][(InLoop /\ cur_line # "" /\ item_match(cur_line)) => C12_OneTopLevelRecord]_vars

\* C12 as amended: every non-blank trimmed line that matches the
\* numbered-item pattern and holds no match of the Part-header pattern
\* anywhere yields exactly that one top-level record.
C12_NumberedLineWithoutPartYieldsRecord ==
    [][(InLoop /\ cur_line # "" /\ item_match(cur_line) /\ ~part_match(cur_line)) =>
          C12_OneTopLevelRecord]_vars

\* A numbered line that also holds a Part header has been passed without a
\* record, after a numbered line without one gave its record.
C12_Witness ==
    /\ pc = "loop"
    /\ i = 3
    /\ lines[1] = "4. Home Telephone Number"
    /\ lines[2] = "3. Legal Name, Part2. above"
    /\ Len(extracted_fields) = 3
    /\ extracted_fields[1].item_number = "4"
    /\ debug_info[Len(debug_info)] = "Found Part 2: above"

\* What one trimmed line l adds to the records, the map and the trace st.
C13_LineOn(l, st) ==
    IF l = "" THEN st
    ELSE IF part_match(l)
    THEN [st EXCEPT !.trace = Append(@, "Found Part " \o part_groups(l).g1 \o ": "
                                          \o part_groups(l).g2)]
    ELSE IF item_match(l)
    THEN LET n == item_groups(l).g1
             label == Strip(item_groups(l).g2)
             entry == "Extracted item " \o n \o ": " \o label
         IN  IF should_create_subfields(label)
             THEN [fields |-> Append(st.fields,
                                     ExtractedField(n, label, "parent", TRUE, FALSE, None))
                                 \o create_subfields(n, label),
                   hierarchy |-> store_hierarchy(st.hierarchy, n, label,
                                                 create_subfields(n, label)),
                   trace |-> Append(st.trace, entry)]
             ELSE [fields |-> Append(st.fields,
                                     ExtractedField(n, label, detect_field_type(label),
                                                    FALSE, FALSE, None)),
                   hierarchy |-> st.hierarchy,
                   trace |-> Append(st.trace, entry)]
    ELSE st

RECURSIVE C13_LinesOn(_, _)
C13_LinesOn(ls, st) ==
    IF ls = <<>> THEN st ELSE C13_LinesOn(Tail(ls), C13_LineOn(Strip(Head(ls)), st))

\* The records, the map and the trace of a run on the text t alone, as a
\* function of t.
C13_Alone(t) ==
    C13_LinesOn(Split(t), [fields |-> <<>>, hierarchy |-> <<>>, trace |-> <<>>])

\* The map h with the entries of g stored over it.
C13_StoredOver(h, g) ==
    [n \in (DOMAIN h) \cup (DOMAIN g) |-> IF n \in DOMAIN g THEN g[n] ELSE h[n]]

\* The loop of a run is over: what the extractor holds now is what is
\* observable after the run.
C13_RunOver == pc = "loop" /\ i > Len(lines)

\* C13: the Hierarchy Map and the debug trace observable after a run on a
\* text depend only on that text, not on earlier runs on the same extractor.
C13_MapAndTraceDependOnTextOnly ==
    C13_RunOver =>
        /\ field_hierarchy = C13_Alone(text).hierarchy
        /\ debug_info = C13_Alone(text).trace

\* C13 as amended: the record sequence of a run depends only on its text;
\* the map and the trace are the extractor's: after a run they are what the
\* extractor held when the run began with the run's own entries stored over
\* the map and appended to the trace, so they depend on the text alone only
\* when the extractor held nothing.
C13_MapAndTraceExtendTheExtractors ==
    C13_RunOver =>
        LET alone == C13_Alone(text)
        IN  /\ extracted_fields = alone.fields
            /\ field_hierarchy = C13_StoredOver(call_hierarchy, alone.hierarchy)
            /\ debug_info = call_debug \o alone.trace
            /\ (call_hierarchy = <<>> /\ call_debug = <<>>) =>
                  /\ field_hierarchy = alone.hierarchy
                  /\ debug_info = alone.trace

\* A run on a text with a parent has ended on an extractor that held the
\* parent and the trace of an earlier run on a different text.
C13_Witness ==
    /\ C13_RunOver
    /\ text = "4. Home Telephone Number"
    /\ last_text = "1. Full Legal Name"
    /\ DOMAIN call_hierarchy = {"1"}
    /\ DOMAIN field_hierarchy = {"1", "4"}
    /\ Len(debug_info) = 2

(***************************************************************************)
(* Properties of the field builder (specification SpecBuilder).            *)
(***************************************************************************)
\* create_subfields has been called on a label that contains "mailing address".
C4_Called == b_out.fn = "create_subfields" /\ Contains(Lower(b_label), "mailing address")

C4_MailingLabels ==
    <<"Same as current physical address", "Street Number and Name",
      "Apt. Ste. Flr. Number", "City or Town", "State", "ZIP Code">>

C4_SixSubfields ==
    /\ Len(b_out.val) = 6
    /\ \A k \in 1..6 : b_out.val[k].label = C4_MailingLabels[k]

\* C4: a label that contains "mailing address" and none of the name trigger
\* phrases and none of the phone trigger phrases gets exactly 6 subfields:
\* the acknowledgment label, then the 5 labels of the address template.
C4_MailingWithoutTriggerPhrases ==
    (/\ C4_Called
     /\ ~ContainsAny(Lower(b_label), {"full legal name", "legal name", "your name"})
     /\ ~ContainsAny(Lower(b_label), {"telephone number", "phone number"})) =>
        C4_SixSubfields

\* C4 as amended: a label that contains "mailing address", does not contain
\* "name" and contains none of the phone trigger phrases gets exactly those
\* 6 subfields.
C4_MailingWithoutName ==
    (/\ C4_Called
     /\ ~Contains(Lower(b_label), "name")
     /\ ~ContainsAny(Lower(b_label), {"telephone number", "phone number"})) =>
        C4_SixSubfields

\* create_subfields has answered for a mailing label that says more than
\* the trigger phrase.
C4_Witness ==
    /\ C4_Called
    /\ b_label = "Mailing Address Zip Code"
    /\ Len(b_out.val) = 6
    /\ b_out.val[6].item_number = b_num \o ".f"

\* The lower-cased label given to the builder holds one of the words.
C11_Has(words) == \E w \in words : Contains(Lower(b_label), w)

\* C11: detect_field_type applies its categories in a fixed order, the first
\* match on the lower-cased label winning: date/birth/expiry gives date; else
\* phone/telephone/mobile gives tel; else email gives email; else
\* number/zip/code gives number; else yes/no/check gives radio; else text.
C11_TypePriority ==
    b_out.fn = "detect_field_type" =>
        LET isDate == C11_Has({"date", "birth", "expiry"})
            isTel == C11_Has({"phone", "telephone", "mobile"})
            isEmail == C11_Has({"email"})
            isNumber == C11_Has({"number", "zip", "code"})
            isRadio == C11_Has({"yes", "no", "check"})
        IN  /\ isDate => b_out.val = "date"
            /\ (~isDate /\ isTel) => b_out.val = "tel"
            /\ (~isDate /\ ~isTel /\ isEmail) => b_out.val = "email"
            /\ (~isDate /\ ~isTel /\ ~isEmail /\ isNumber) => b_out.val = "number"
            /\ (~isDate /\ ~isTel /\ ~isEmail /\ ~isNumber /\ isRadio) =>
                  b_out.val = "radio"
            /\ (~isDate /\ ~isTel /\ ~isEmail /\ ~isNumber /\ ~isRadio) =>
                  b_out.val = "text"

\* The detector has answered date for a label that also holds "phone" and
\* "number".
C11_Witness ==
    /\ b_out.fn = "detect_field_type"
    /\ b_label = "Date of Birth Phone Number"
    /\ b_out.val = "date"

\* The labels of the subfields create_subfields returned, in order.
C15_Labels == [k \in 1..Len(b_out.val) |-> b_out.val[k].label]

\* create_subfields has answered for a label should_create_subfields accepts.
C15_Expanded == b_out.fn = "create_subfields" /\ should_create_subfields(b_label)

\* C15: whenever should_create_subfields(label) is true, create_subfields
\* never selects the generic template ("Field A", "Field B", "Field C"): each
\* of the nine trigger phrases contains "name", "address" or "phone", so the
\* parent gets the name (3), address (5), mailing (6) or phone (2) template,
\* and a label that contains "name" gets the name template even when an
\* address or phone trigger expanded it.
C15_NeverGenericTemplate ==
    /\ Cardinality(subfield_triggers) = 9
    /\ \A t \in subfield_triggers : ContainsAny(t, {"name", "address", "phone"})
    /\ C15_Expanded =>
          /\ C15_Labels # <<"Field A", "Field B", "Field C">>
          /\ \/ C15_Labels = subfield_patterns.name /\ Len(C15_Labels) = 3
             \/ C15_Labels = subfield_patterns.address /\ Len(C15_Labels) = 5
             \/ /\ C15_Labels = subfield_patterns.mailing_same \o subfield_patterns.address
                /\ Len(C15_Labels) = 6
             \/ C15_Labels = subfield_patterns.phone /\ Len(C15_Labels) = 2
          /\ Contains(Lower(b_label), "name") => C15_Labels = subfield_patterns.name

\* create_subfields has answered with the name template for a label that
\* only its phone trigger expands.
C15_Witness ==
    /\ C15_Expanded
    /\ b_label = "Name Phone Number"
    /\ ~ContainsAny(Lower(b_label), {"full legal name", "legal name", "your name"})
    /\ C15_Labels = subfield_patterns.name

(***************************************************************************)
(* Properties of the form-type detector (specification SpecForm).          *)
(***************************************************************************)
\* C5: the result is the first identifier, in the order I-485, I-539, I-765,
\* I-130, I-129, N-400, whose pattern matches the text case-insensitively
\* anywhere; so a text containing "I-485" gives "I-485", and the result is
\* "Unknown" exactly when none of the six patterns matches.
C5_FirstMatchingForm ==
    form_type # None =>
        /\ Contains(form_text, "I-485") => form_type = "I-485"
        /\ form_type = "Unknown" <=>
              \A k \in 1..6 : ~form_search(form_patterns[k], form_text)
        /\ \A k \in 1..6 :
              (/\ form_search(form_patterns[k], form_text)
               /\ \A j \in 1..(k - 1) : ~form_search(form_patterns[j], form_text)) =>
                  form_type = <<"I-485", "I-539", "I-765", "I-130", "I-129", "N-400">>[k]

\* The detector has answered I-485 for a text in which a later form's
\* identifier comes first.
C5_Witness ==
    /\ form_text = "I-765I-485"
    /\ form_type = "I-485"


(***************************************************************************)
(* Properties of extract_pdf_content (specification SpecPdf).              *)
(***************************************************************************)
\* The fixed order of the extraction methods.
C14_Order == <<"Docling", "PyMuPDF", "PyPDF2">>

C14_Rank(m) == CHOOSE k \in 1..3 : C14_Order[k] = m

C14_Available(m) ==
    CASE m = "Docling" -> DOCLING_AVAILABLE
      [] m = "PyMuPDF" -> PYMUPDF_AVAILABLE
      [] m = "PyPDF2" -> PYPDF2_AVAILABLE

C14_Methods == {"Docling", "PyMuPDF", "PyPDF2"}

C14_Failed(m) ==
    \E k \in 1..Len(attempts) : attempts[k].method = m /\ attempts[k].outcome = "failed"

\* Methods are entered in the fixed order, only available ones, each at most
\* once; a method is entered only after every earlier available one failed.
C14_InOrder ==
    \A k \in 1..Len(attempts) :
        /\ C14_Available(attempts[k].method)
        /\ \A j \in 1..(k - 1) :
              /\ C14_Rank(attempts[j].method) < C14_Rank(attempts[k].method)
              /\ attempts[j].outcome = "failed"
        /\ \A m \in C14_Methods :
              (C14_Available(m) /\ C14_Rank(m) < C14_Rank(attempts[k].method))
                  => \E j \in 1..(k - 1) : attempts[j].method = m

\* The first method that succeeds supplies the returned content.
C14_FirstSuccessSupplies ==
    /\ \A k \in 1..Len(attempts) :
          attempts[k].outcome = "ok" =>
              /\ k = Len(attempts)
              /\ pdf_pc = "done"
              /\ content.kind = "content"
              /\ content.by = attempts[k].method
    /\ (pdf_pc = "done" /\ content.kind = "content") =>
          /\ attempts # <<>>
          /\ attempts[Len(attempts)].outcome = "ok"

C14_ErrorReturned == pdf_pc = "done" /\ content.kind = "error"

C14_AllAvailableFailed == \A m \in C14_Methods : C14_Available(m) => C14_Failed(m)

\* C14 as stated: the methods are tried in the order Docling, PyMuPDF,
\* PyPDF2, unavailable ones skipped, a later one only after every earlier
\* available one failed; the first success supplies the content; and an
\* error result is returned only when no method is available or every
\* available method has failed.
C14_ErrorOnlyWhenAllFailed ==
    /\ C14_InOrder
    /\ C14_FirstSuccessSupplies
    /\ C14_ErrorReturned => C14_AllAvailableFailed

\* C14: the order and the first-success rule hold as stated; an error result
\* is returned only when no method is available, or every available method
\* has failed, or reading the bytes of the upload raised in
\* extract_with_fallback, in which case PyMuPDF and PyPDF2 were never
\* entered and the error is "Fallback extraction failed: ...".
C14_ErrorOnlyWhenAllFailedOrUnreadable ==
    /\ C14_InOrder
    /\ C14_FirstSuccessSupplies
    /\ C14_ErrorReturned =>
          \/ /\ C14_AllAvailableFailed
             /\ pdf_file.readable
             /\ content.error = "No PDF extraction library available"
          \/ /\ ~pdf_file.readable
             /\ DOCLING_AVAILABLE => C14_Failed("Docling")
             /\ ~C14_Failed("PyMuPDF") /\ ~C14_Failed("PyPDF2")
             /\ content.error = "Fallback extraction failed: " \o exc

\* Docling and PyMuPDF were tried and failed, and PyPDF2 supplied the content.
C14_Witness ==
    /\ pdf_pc = "done"
    /\ Len(attempts) = 3
    /\ attempts[1] = [method |-> "Docling", outcome |-> "failed"]
    /\ attempts[2] = [method |-> "PyMuPDF", outcome |-> "failed"]
    /\ attempts[3] = [method |-> "PyPDF2", outcome |-> "ok"]
    /\ content.kind = "content"
    /\ content.by = "PyPDF2"

====
